---- MODULE Spec2Model ----
(***************************************************************************)
(* Model of the genetic-algorithm squad selector of src/src/main.rs.       *)
(*                                                                         *)
(* A Player is a record (element, position, team, value,                   *)
(* predicted_points); a squad is a sequence of Players (the code clones    *)
(* Players into squads).  f32 amounts are modelled as exact integers;      *)
(* fitness is kept in quarter points so that the 0.25 weight stays         *)
(* integral.  Random draws are nondeterministic choices.                   *)
(*                                                                         *)
(* The squad size, bench size, population size, generation count, group    *)
(* cap and repair ceiling are scaled down from the source's 15, 4, 150,    *)
(* 2500, 3 and 400; the category caps are scaled with them.                *)
(***************************************************************************)
EXTENDS Integers, Sequences, FiniteSets

VARIABLES
    pc,                     \* position of the program
    team,                   \* generate_random_team: the team being built
    population,             \* select_best_team_ga: population
    best_individuals,       \* select_best_team_ga: best_individuals (squads)
    new_population,         \* select_best_team_ga: new_population
    parent1, parent2,       \* the parents handed to crossover
    split,                  \* crossover: split
    child,                  \* crossover: child; select_best_team_ga: child
    g,                      \* generations completed
    best_team,              \* main: best_team
    total_predicted_points, \* main: total_predicted_points
    fit, fit_perm,          \* results of fitness
    ok                      \* result of satisfies_constraints

vars == <<pc, team, population, best_individuals, new_population, parent1,
          parent2, split, child, g, best_team,
          total_predicted_points, fit, fit_perm, ok>>

----------------------------------------------------------------------------
(* Sizes.  MAX_VALUE is the source's; the others are scaled down.          *)

SQUAD_SIZE == 3
BENCH_SIZE == 1
POPULATION_SIZE == 2
GENERATIONS == 2
MAX_VALUE == 1000
MAX_PLAYERS_PER_TEAM == 2
REPAIR_ATTEMPTS == 2

\* max_positions(): the caps of the four capped categories.
max_positions ==
    [pos \in {"GK", "DEF", "MID", "FWD"} |->
        CASE pos = "GK" -> 1
          [] pos = "DEF" -> 2
          [] pos = "MID" -> 1
          [] pos = "FWD" -> 1]

\* The candidate pool read by main: a goalkeeper and a defender of T1 at 300,
\* a defender and a midfielder of T2 at 400; three of the four score below 0.
players ==
    << [element |-> 1, position |-> "GK",  team |-> "T1", value |-> 300,
        predicted_points |-> -2],
       [element |-> 2, position |-> "DEF", team |-> "T1", value |-> 300,
        predicted_points |-> -1],
       [element |-> 3, position |-> "DEF", team |-> "T2", value |-> 400,
        predicted_points |-> -3],
       [element |-> 4, position |-> "MID", team |-> "T2", value |-> 400,
        predicted_points |-> 5] >>

\* A candidate whose category is none of the four capped ones.
utility_player ==
    [element |-> 5, position |-> "UTIL", team |-> "T3", value |-> 300,
     predicted_points |-> 4]

Range(s) == {s[i] : i \in 1..Len(s)}

Pool == Range(players)

----------------------------------------------------------------------------
(* Helpers over squads.                                                    *)

RECURSIVE SumValue(_)
SumValue(s) == IF s = <<>> THEN 0 ELSE s[1].value + SumValue(Tail(s))

RECURSIVE SumPoints(_)
SumPoints(s) == IF s = <<>> THEN 0
                ELSE s[1].predicted_points + SumPoints(Tail(s))

\* members of the first k entries of s in category pos / group t
CountPosition(s, k, pos) == Cardinality({i \in 1..k : s[i].position = pos})
CountTeam(s, k, t) == Cardinality({i \in 1..k : s[i].team = t})

\* insert x into the ascending sequence s after every entry <= x
\* (a stable ascending sort, as sort_by)
RECURSIVE InsertAsc(_, _)
InsertAsc(s, x) ==
    IF s = <<>> THEN <<x>>
    ELSE IF s[1] <= x THEN <<s[1]>> \o InsertAsc(Tail(s), x)
    ELSE <<x>> \o s

RECURSIVE SortAsc(_)
SortAsc(s) == IF s = <<>> THEN <<>>
              ELSE InsertAsc(SortAsc(SubSeq(s, 1, Len(s) - 1)), s[Len(s)])

----------------------------------------------------------------------------
(* fitness, in quarter points.                                             *)

RECURSIVE WeightedSum(_, _)
WeightedSum(points, i) ==
    IF i > Len(points) THEN 0
    ELSE (IF i - 1 < BENCH_SIZE THEN points[i] ELSE 4 * points[i])
         + WeightedSum(points, i + 1)

\* fitness with the sort of the scores left out
fitness_unsorted(t) ==
    IF SumValue(t) > MAX_VALUE THEN 0
    ELSE WeightedSum([i \in 1..Len(t) |-> t[i].predicted_points], 1)

fitness(t) ==
    IF SumValue(t) > MAX_VALUE THEN 0
    ELSE WeightedSum(SortAsc([i \in 1..Len(t) |-> t[i].predicted_points]), 1)

----------------------------------------------------------------------------
(* satisfies_constraints                                                   *)

UniqueElements(t) ==
    \A i, j \in 1..Len(t) : i # j => t[i].element # t[j].element

\* the checks made when the second loop reaches member k
MemberOk(t, k) ==
    /\ t[k].position \in DOMAIN max_positions
          => CountPosition(t, k, t[k].position) <= max_positions[t[k].position]
    /\ CountTeam(t, k, t[k].team) <= MAX_PLAYERS_PER_TEAM
    /\ SumValue(SubSeq(t, 1, k)) <= MAX_VALUE

satisfies_constraints(t) ==
    /\ UniqueElements(t)
    /\ \A k \in 1..Len(t) : MemberOk(t, k)
    /\ Len(t) = SQUAD_SIZE

----------------------------------------------------------------------------
(* generate_random_team                                                    *)

\* max_positions().get(&player.position).unwrap_or(&0)
position_cap(pos) ==
    IF pos \in DOMAIN max_positions THEN max_positions[pos] ELSE 0

\* the acceptance condition with the budget test left out
accepts_nobudget(t, p) ==
    /\ CountPosition(t, Len(t), p.position) < position_cap(p.position)
    /\ CountTeam(t, Len(t), p.team) < MAX_PLAYERS_PER_TEAM

\* the condition under which a drawn player is pushed
accepts(t, p) ==
    /\ CountPosition(t, Len(t), p.position) < position_cap(p.position)
    /\ CountTeam(t, Len(t), p.team) < MAX_PLAYERS_PER_TEAM
    /\ SumValue(t) + p.value <= MAX_VALUE

----------------------------------------------------------------------------
(* crossover                                                               *)

\* Vec::dedup_by_key: drops an entry whose key equals the key of the entry
\* kept just before it
RECURSIVE dedup_by_key(_)
dedup_by_key(s) ==
    IF Len(s) <= 1 THEN s
    ELSE LET d == dedup_by_key(SubSeq(s, 1, Len(s) - 1))
             x == s[Len(s)]
         IN  IF d[Len(d)].element = x.element THEN d ELSE Append(d, x)

spliced(p1, p2, s) == SubSeq(p1, 1, s) \o SubSeq(p2, s + 1, Len(p2))

\* the children the repair loop can end with, from child c after cur attempts
RECURSIVE repair(_, _, _)
repair(c, cur, p1) ==
    IF Len(c) < SQUAD_SIZE /\ cur < REPAIR_ATTEMPTS
    THEN UNION { repair(IF \E i \in 1..Len(c) : c[i].element = p.element
                        THEN c ELSE Append(c, p), cur + 1, p1)
                 : p \in Range(p1) }
    ELSE {c}

\* crossover returning the repaired child without the final check
crossover_result_unchecked(c, p1, p2, coin) == c

\* the final check of crossover; coin is rng.gen::<f32>() < 0.5
crossover_result(c, p1, p2, coin) ==
    IF satisfies_constraints(c) THEN c ELSE IF coin THEN p1 ELSE p2

----------------------------------------------------------------------------
(* select_best_team_ga: selection and the final scan                       *)

\* insert squad x into s, sorted by descending fitness, after every entry
\* of fitness >= fitness(x) (sort_by with the comparison reversed; stable)
RECURSIVE InsertDesc(_, _)
InsertDesc(s, x) ==
    IF s = <<>> THEN <<x>>
    ELSE IF fitness(s[1]) >= fitness(x) THEN <<s[1]>> \o InsertDesc(Tail(s), x)
    ELSE <<x>> \o s

RECURSIVE sort_descending(_)
sort_descending(s) ==
    IF s = <<>> THEN <<>>
    ELSE InsertDesc(sort_descending(SubSeq(s, 1, Len(s) - 1)), s[Len(s)])

\* selection with the comparison the wrong way round: ascending fitness
RECURSIVE InsertAscFit(_, _)
InsertAscFit(s, x) ==
    IF s = <<>> THEN <<x>>
    ELSE IF fitness(s[1]) <= fitness(x)
         THEN <<s[1]>> \o InsertAscFit(Tail(s), x)
    ELSE <<x>> \o s

RECURSIVE sort_ascending(_)
sort_ascending(s) ==
    IF s = <<>> THEN <<>>
    ELSE InsertAscFit(sort_ascending(SubSeq(s, 1, Len(s) - 1)), s[Len(s)])

truncate(s, n) == IF Len(s) > n THEN SubSeq(s, 1, n) ELSE s

select_worst(pop) == truncate(sort_ascending(pop), POPULATION_SIZE \div 2)

\* sort by fitness, descending, and keep the top half
select_best(pop) == truncate(sort_descending(pop), POPULATION_SIZE \div 2)

\* Iterator::max_by returns the last of the maximal elements
RECURSIVE max_by_fitness(_)
max_by_fitness(pop) ==
    IF Len(pop) = 1 THEN pop[1]
    ELSE LET m == max_by_fitness(SubSeq(pop, 1, Len(pop) - 1))
             x == pop[Len(pop)]
         IN  IF fitness(x) >= fitness(m) THEN x ELSE m

----------------------------------------------------------------------------
(* main: the reported aggregate                                            *)

Max2(a, b) == IF a >= b THEN a ELSE b

\* fold((0.0, 0.0), |(sum, max), x| (sum + x, max.max(x))), then sum + max
RECURSIVE FoldMax(_, _)
FoldMax(s, m) == IF s = <<>> THEN m
                 ELSE FoldMax(Tail(s), Max2(m, s[1].predicted_points))

aggregate_score(t) == SumPoints(t) + FoldMax(t, 0)

----------------------------------------------------------------------------
(* The program: main calls select_best_team_ga, then reports.              *)

Init ==
    /\ pc = "init"
    /\ team = <<>>
    /\ population = <<>>
    /\ best_individuals = <<>>
    /\ new_population = <<>>
    /\ parent1 = <<>>
    /\ parent2 = <<>>
    /\ split = 0
    /\ child = <<>>
    /\ g = 0
    /\ best_team = <<>>
    /\ total_predicted_points = 0
    /\ fit = 0
    /\ fit_perm = 0
    /\ ok = FALSE

\* create_initial_population: one draw of the generate_random_team loop.  The
\* draw that fills the team returns it and create_initial_population collects
\* it; a rejected draw changes nothing.
CreateInitialPopulation ==
    /\ pc = "init"
    /\ \E p \in Pool :
          IF accepts(team, p)
          THEN LET t == Append(team, p) IN
               IF Len(t) < SQUAD_SIZE
               THEN /\ team' = t
                    /\ UNCHANGED <<pc, population>>
               ELSE /\ team' = <<>>
                    /\ population' = Append(population, t)
                    /\ pc' = IF Len(population) + 1 < POPULATION_SIZE
                             THEN "init" ELSE "select"
          ELSE UNCHANGED <<pc, team, population>>
    /\ UNCHANGED <<best_individuals, new_population, parent1, parent2, split,
                   child, g, best_team, total_predicted_points, fit,
                   fit_perm, ok>>

\* the head of one generation: evaluate, sort, truncate
Select ==
    /\ pc = "select"
    /\ g < GENERATIONS
    /\ best_individuals' = select_best(population)
    /\ new_population' = <<>>
    /\ pc' = "breed"
    /\ UNCHANGED <<team, population, parent1, parent2, split, child,
                   g, best_team, total_predicted_points, fit, fit_perm, ok>>

\* crossover, first half: the split is drawn and the child is spliced and
\* deduplicated
CrossoverSplice(p1, p2) ==
    \E s \in 0..(SQUAD_SIZE - 1) :
        /\ parent1' = p1
        /\ parent2' = p2
        /\ split' = s
        /\ child' = dedup_by_key(spliced(p1, p2, s))

\* crossover, second half: the repair loop, every outcome of its draws, and
\* the final check; crossover returns
CrossoverReturn ==
    /\ \E r \in repair(child, 0, parent1) : \E coin \in BOOLEAN :
          child' = crossover_result(r, parent1, parent2, coin)
    /\ split' = 0

\* two parents are drawn from best_individuals and handed to crossover
Crossover ==
    /\ pc = "breed"
    /\ Len(new_population) < POPULATION_SIZE
    /\ \E i, j \in 1..Len(best_individuals) :
          CrossoverSplice(best_individuals[i], best_individuals[j])
    /\ pc' = "crossover"
    /\ UNCHANGED <<team, population, best_individuals, new_population, g,
                   best_team, total_predicted_points, fit, fit_perm, ok>>

CrossoverRepair ==
    /\ pc = "crossover"
    /\ CrossoverReturn
    /\ pc' = "mutate"
    /\ UNCHANGED <<team, population, best_individuals, new_population,
                   parent1, parent2, g, best_team, total_predicted_points,
                   fit, fit_perm, ok>>

\* mutate, up to its return or its call of generate_random_team
Mutate ==
    /\ pc = "mutate"
    /\ \E swap \in BOOLEAN : \E index \in 1..Len(child) : \E new_player \in Pool :
          LET t == IF swap THEN [child EXCEPT ![index] = new_player] ELSE child
          IN  /\ child' = t
              /\ pc' = IF satisfies_constraints(t) THEN "push" ELSE "regen"
    /\ team' = <<>>
    /\ UNCHANGED <<population, best_individuals, new_population, parent1,
                   parent2, split, g, best_team,
                   total_predicted_points, fit, fit_perm, ok>>

\* mutate's fallback: one draw of the generate_random_team loop; the draw that
\* fills the team returns it into *team and mutate returns
Regenerate ==
    /\ pc = "regen"
    /\ \E p \in Pool :
          IF accepts(team, p)
          THEN LET t == Append(team, p) IN
               IF Len(t) < SQUAD_SIZE
               THEN /\ team' = t
                    /\ UNCHANGED <<pc, child>>
               ELSE /\ team' = <<>>
                    /\ child' = t
                    /\ pc' = "push"
          ELSE UNCHANGED <<pc, team, child>>
    /\ UNCHANGED <<population, best_individuals, new_population, parent1,
                   parent2, split, g, best_team,
                   total_predicted_points, fit, fit_perm, ok>>

\* new_population.push(child); the locals of the loop body go out of scope
Push ==
    /\ pc = "push"
    /\ new_population' = Append(new_population, child)
    /\ parent1' = <<>>
    /\ parent2' = <<>>
    /\ split' = 0
    /\ child' = <<>>
    /\ pc' = "breed"
    /\ UNCHANGED <<team, population, best_individuals, g, best_team,
                   total_predicted_points, fit, fit_perm, ok>>

\* population = new_population, at the end of one generation
NextGeneration ==
    /\ pc = "breed"
    /\ Len(new_population) >= POPULATION_SIZE
    /\ population' = new_population
    /\ new_population' = <<>>
    /\ best_individuals' = <<>>
    /\ g' = g + 1
    /\ pc' = "select"
    /\ UNCHANGED <<team, parent1, parent2, split, child, best_team,
                   total_predicted_points, fit, fit_perm, ok>>

\* after the last generation: the squad of maximum fitness is returned
Finalize ==
    /\ pc = "select"
    /\ g >= GENERATIONS
    /\ best_team' = max_by_fitness(population)
    /\ pc' = "report"
    /\ UNCHANGED <<team, population, best_individuals, new_population, parent1,
                   parent2, split, child, g, total_predicted_points,
                   fit, fit_perm, ok>>

\* main: the aggregate printed for the returned squad
Report ==
    /\ pc = "report"
    /\ total_predicted_points' = aggregate_score(best_team)
    /\ pc' = "done"
    /\ UNCHANGED <<team, population, best_individuals, new_population, parent1,
                   parent2, split, child, g, best_team, fit, fit_perm,
                   ok>>

Next ==
    \/ CreateInitialPopulation
    \/ Select
    \/ Crossover
    \/ CrossoverRepair
    \/ Mutate
    \/ Regenerate
    \/ Push
    \/ NextGeneration
    \/ Finalize
    \/ Report

Spec == Init /\ [][Next]_vars

----------------------------------------------------------------------------
(* The operations one at a time, on squads drawn over the pool and the     *)
(* utility player: lengths around SQUAD_SIZE, any members, any order.      *)

RECURSIVE SquadsOver(_, _)
SquadsOver(P, n) ==
    IF n = 0 THEN {<<>>}
    ELSE {Append(t, p) : t \in SquadsOver(P, n - 1), p \in P}

AnyPlayer == Pool \cup {utility_player}

Permutations(n) ==
    {f \in [1..n -> 1..n] : \A i, j \in 1..n : i # j => f[i] # f[j]}

InitOps ==
    /\ pc = "ops"
    /\ \E n \in (SQUAD_SIZE - 1)..(SQUAD_SIZE + 1) :
          parent1 \in SquadsOver(AnyPlayer, n)
    /\ team = <<>>
    /\ population = <<>>
    /\ best_individuals = <<>>
    /\ new_population = <<>>
    /\ parent2 = <<>>
    /\ split = 0
    /\ child = <<>>
    /\ g = 0
    /\ best_team = <<>>
    /\ total_predicted_points = 0
    /\ fit = 0
    /\ fit_perm = 0
    /\ ok = FALSE

\* fitness of the squad and of one reordering of it
OpFitness ==
    /\ pc = "ops"
    /\ fit' = fitness(parent1)
    /\ \E f \in Permutations(Len(parent1)) :
          /\ parent2' = [i \in 1..Len(parent1) |-> parent1[f[i]]]
          /\ fit_perm' = fitness(parent2')
    /\ pc' = "fit"
    /\ UNCHANGED <<team, population, best_individuals, new_population, parent1,
                   split, child, g, best_team, total_predicted_points, ok>>

OpValidate ==
    /\ pc = "ops"
    /\ ok' = satisfies_constraints(parent1)
    /\ pc' = "validated"
    /\ UNCHANGED <<team, population, best_individuals, new_population, parent1,
                   parent2, split, child, g, best_team,
                   total_predicted_points, fit, fit_perm>>

\* crossover of the squad with any second parent
OpCrossover ==
    /\ pc = "ops"
    /\ Len(parent1) = SQUAD_SIZE
    /\ \E p2 \in SquadsOver(AnyPlayer, SQUAD_SIZE) : CrossoverSplice(parent1, p2)
    /\ pc' = "opcrossover"
    /\ UNCHANGED <<team, population, best_individuals, new_population, g,
                   best_team, total_predicted_points, fit, fit_perm, ok>>

OpCrossoverRepair ==
    /\ pc = "opcrossover"
    /\ CrossoverReturn
    /\ pc' = "crossed"
    /\ UNCHANGED <<team, population, best_individuals, new_population,
                   parent1, parent2, g, best_team, total_predicted_points,
                   fit, fit_perm, ok>>

NextOps ==
    \/ OpFitness
    \/ OpValidate
    \/ OpCrossover
    \/ OpCrossoverRepair

SpecOps == InitOps /\ [][NextOps]_vars

----------------------------------------------------------------------------
(* Vocabulary of the properties.                                           *)

Positions(t) == {t[i].position : i \in 1..Len(t)}
Teams(t) == {t[i].team : i \in 1..Len(t)}
PointsOf(t) == {t[i].predicted_points : i \in 1..Len(t)}

MaxPoints(t) == CHOOSE m \in PointsOf(t) : \A x \in PointsOf(t) : x <= m

RECURSIVE SumPointsAt(_, _)
SumPointsAt(t, I) ==
    IF I = {} THEN 0
    ELSE LET i == CHOOSE x \in I : TRUE
         IN  t[i].predicted_points + SumPointsAt(t, I \ {i})

\* the sets of BENCH_SIZE members none of which outscores a member left out
BenchSets(t) ==
    {B \in SUBSET (1..Len(t)) :
        /\ Cardinality(B) = BENCH_SIZE
        /\ \A i \in B : \A j \in (1..Len(t)) \ B :
              t[i].predicted_points <= t[j].predicted_points}

\* s without every member whose identifier occurs earlier in s
RECURSIVE KeepFirst(_)
KeepFirst(s) ==
    IF s = <<>> THEN <<>>
    ELSE LET front == SubSeq(s, 1, Len(s) - 1)
             x == s[Len(s)]
         IN  IF \E i \in 1..Len(front) : front[i].element = x.element
             THEN KeepFirst(front) ELSE Append(KeepFirst(front), x)

\* every validity condition except the uniqueness of the identifiers
ValidButForDuplicates(t) ==
    /\ Len(t) = SQUAD_SIZE
    /\ SumValue(t) <= MAX_VALUE
    /\ \A tm \in Teams(t) : CountTeam(t, Len(t), tm) <= MAX_PLAYERS_PER_TEAM
    /\ \A pos \in DOMAIN max_positions :
          CountPosition(t, Len(t), pos) <= max_positions[pos]

\* a valid squad can be formed from the pool
PoolFeasible == \E t \in SquadsOver(Pool, SQUAD_SIZE) : satisfies_constraints(t)

Breeding == pc \in {"breed", "crossover", "mutate", "regen", "push"}

\* best_individuals is population restricted to n of its positions, and no
\* squad at another position is fitter than a squad at one of these
TopOf(best, pop, n) ==
    /\ Len(best) = n
    /\ \E f \in [1..n -> 1..Len(pop)] :
          /\ \A i, j \in 1..n : i # j => f[i] # f[j]
          /\ \A i \in 1..n : best[i] = pop[f[i]]
          /\ \A k \in (1..Len(pop)) \ {f[i] : i \in 1..n} :
                \A i \in 1..n : fitness(best[i]) >= fitness(pop[k])

----------------------------------------------------------------------------
(* Properties.                                                             *)

\* C1: when mutate returns, the squad it leaves in team passes
\* satisfies_constraints.
C1_MutateReturnsValid ==
    pc = "push" => satisfies_constraints(child)

\* C2: crossover returns a SQUAD_SIZE-member squad that passes
\* satisfies_constraints, or parent1 as it is, or parent2 as it is.
C2_CrossoverValidOrParent ==
    pc = "crossed" =>
        \/ Len(child) = SQUAD_SIZE /\ satisfies_constraints(child)
        \/ child = parent1
        \/ child = parent2

\* C2 witness: crossover returned a valid squad that is neither parent.
C2_Witness ==
    /\ pc = "crossed"
    /\ satisfies_constraints(child)
    /\ child # parent1
    /\ child # parent2

\* C3: the squad select_best_team_ga returns passes satisfies_constraints.
C3_ReturnedSquadValid ==
    pc \in {"report", "done"} => satisfies_constraints(best_team)

\* C4: a squad satisfies_constraints accepts has SQUAD_SIZE members with
\* pairwise distinct identifiers, no category present in it above that
\* category's cap, no group above MAX_PLAYERS_PER_TEAM and a total cost of at
\* most MAX_VALUE.
C4_AcceptedSquadWithinCaps ==
    (pc = "validated" /\ ok) =>
        /\ Len(parent1) = SQUAD_SIZE
        /\ UniqueElements(parent1)
        /\ \A pos \in Positions(parent1) :
              CountPosition(parent1, Len(parent1), pos) <= position_cap(pos)
        /\ \A tm \in Teams(parent1) :
              CountTeam(parent1, Len(parent1), tm) <= MAX_PLAYERS_PER_TEAM
        /\ SumValue(parent1) <= MAX_VALUE

\* C5: fitness of a SQUAD_SIZE-member squad is 0 when its cost exceeds
\* MAX_VALUE, and otherwise the sum of the predicted scores with the
\* BENCH_SIZE lowest ones weighted a quarter (here: the others weighted 4);
\* a reordering of a squad has the same fitness.
C5_FitnessWeights ==
    pc = "fit" =>
        /\ Len(parent1) = SQUAD_SIZE =>
              IF SumValue(parent1) > MAX_VALUE
              THEN fit = 0
              ELSE /\ BenchSets(parent1) # {}
                   /\ \A B \in BenchSets(parent1) :
                         fit = SumPointsAt(parent1, B)
                               + 4 * SumPointsAt(parent1, (1..Len(parent1)) \ B)
        /\ fit_perm = fit

\* C5 witness: fitness of an affordable squad whose scores are not in
\* ascending order, and of a different ordering of it.
C5_Witness ==
    /\ pc = "fit"
    /\ Len(parent1) = SQUAD_SIZE
    /\ SumValue(parent1) <= MAX_VALUE
    /\ parent2 # parent1
    /\ parent1[1].predicted_points > parent1[2].predicted_points
    /\ fit # 0

\* C6: the reported aggregate is the sum of the members' predicted scores
\* plus the highest predicted score among them.
C6_AggregateIsSumPlusMax ==
    pc = "done" =>
        total_predicted_points = SumPoints(best_team) + MaxPoints(best_team)

\* C7: with a pool from which a valid squad can be formed, the
\* generate_random_team loop is never in a state where it can accept no
\* candidate (so that the run completes under fair draws).
C7_InitializerNeverStuck ==
    (pc \in {"init", "regen"} /\ PoolFeasible) =>
        \E p \in Pool : accepts(team, p)

\* C8: right after the duplicate removal of crossover the child holds no two
\* members with the same identifier: it is the spliced sequence with the
\* first occurrence of each identifier kept, in order.  Stated for parents
\* that both pass satisfies_constraints, the squads a population is meant to
\* hold.
C8_DedupKeepsFirstOccurrences ==
    (/\ pc = "opcrossover"
     /\ satisfies_constraints(parent1)
     /\ satisfies_constraints(parent2)) =>
        /\ UniqueElements(child)
        /\ child = KeepFirst(spliced(parent1, parent2, split))

\* C9: no child is built before selection is done; the breeding pool is
\* POPULATION_SIZE / 2 squads of the current population, none less fit than a
\* squad left out; both parents of a child come from it; and a population has
\* exactly POPULATION_SIZE squads.
C9_SelectionThenBreeding ==
    /\ pc \in {"init", "select"} =>
          new_population = <<>> /\ child = <<>> /\ best_individuals = <<>>
    /\ pc = "select" => Len(population) = POPULATION_SIZE
    /\ Breeding =>
          /\ Len(population) = POPULATION_SIZE
          /\ Len(new_population) <= POPULATION_SIZE
          /\ TopOf(best_individuals, population, POPULATION_SIZE \div 2)
    /\ pc \in {"crossover", "mutate", "regen", "push"} =>
          /\ parent1 \in Range(best_individuals)
          /\ parent2 \in Range(best_individuals)
          /\ Len(new_population) < POPULATION_SIZE

\* C9 witness: a child is being bred in the second generation from a pool
\* that left out a strictly less fit squad.
C9_Witness ==
    /\ pc = "push"
    /\ g = 1
    /\ Len(new_population) = POPULATION_SIZE - 1
    /\ \E k \in 1..Len(population) :
          fitness(population[k]) < fitness(best_individuals[1])

\* C10: every squad of the initial population and of the population after
\* every generation (and so every parent and every squad fitness is applied
\* to) has SQUAD_SIZE members, costs at most MAX_VALUE and respects the group
\* cap and the four category caps.
C10_PopulationValidButForDuplicates ==
    /\ \A t \in Range(population) \cup Range(new_population)
                \cup Range(best_individuals) :
          ValidButForDuplicates(t)
    /\ pc \in {"crossover", "mutate", "regen", "push"} =>
          Len(parent1) = SQUAD_SIZE /\ Len(parent2) = SQUAD_SIZE
    /\ pc \in {"report", "done"} => ValidButForDuplicates(best_team)

\* C10 witness: after the last generation the population holds a squad with a
\* repeated identifier.
C10_Witness ==
    /\ pc = "select"
    /\ g = GENERATIONS
    /\ \E t \in Range(population) : ~UniqueElements(t)

====
